---------------------------- MODULE Spec2Model ----------------------------
(***************************************************************************)
(* Model of the job scraper's extraction engine: the callback that         *)
(* scrapeWebsite (src/server.js) and scrapeIndeed (src/unnamed/part_000)   *)
(* evaluate inside the rendered page.  Strings are sequences of            *)
(* one-character strings; the DOM is a sequence of nodes in document       *)
(* order, each naming its parent and the selectors the browser matches it  *)
(* against.                                                                *)
(***************************************************************************)
EXTENDS Integers, Sequences, FiniteSets, TLC

VARIABLES
    engine,         \* "website" (scrapeWebsite) or "indeed" (scrapeIndeed)
    doc,            \* the rendered document: nodes in document order
    url,            \* scrapeWebsite's url argument, the base URL
    keywords,       \* scrapeWebsite's keywords argument
    selectors,      \* scrapeWebsite's selectors argument (custom selectors)
    limit,          \* the limit argument
    pc,             \* position inside the evaluated callback
    jobElements,    \* the candidate elements (indices into doc)
    i,              \* the loop counter of the extraction loop
    extractedJobs,  \* the records pushed so far; the return value at "done"
    extractCalls,   \* history: the elements a record was built for, in order
    pushedFrom,     \* history: the element each pushed record was built from
    caught,         \* history: the elements whose iteration ended in the catch
    request,        \* per HTTP request: its endpoint and the sites of its body
    rpc,            \* per HTTP request: the await its handler stands at
    site,           \* per HTTP request: the index of the site being scraped
    browser,        \* per HTTP request: scrapeWebsite's browser is open
    outcome,        \* per HTTP request: what scrapeWebsite returns or throws
    results,        \* per HTTP request: the results array of /bulk-scrape
    response,       \* per HTTP request: the response sent
    trace           \* history, per HTTP request: the steps taken, in order

\* The state of one evaluated callback.
callbackVars ==
    <<engine, doc, url, keywords, selectors, limit, pc, jobElements, i,
      extractedJobs, extractCalls, pushedFrom, caught>>

\* The state of the HTTP handlers.
serverVars ==
    <<request, rpc, site, browser, outcome, results, response, trace>>

vars == <<callbackVars, serverVars>>

----------------------------------------------------------------------------
(* Bounds of the model. *)

\* The longest document is built from this many blocks of the block pool.
MaxBlocks == 2
\* The limit argument ranges over 0..MaxLimit.
MaxLimit == 2

----------------------------------------------------------------------------
(* JavaScript strings and values. *)

\* null / undefined (no string is a sequence holding a longer string).
Null == <<"NULL">>

\* Boolean(v) of a string or null.
Truthy(v) == v # Null /\ v # <<>>

\* a || b
OrElse(a, b) == IF Truthy(a) THEN a ELSE b

\* The characters \s and String.prototype.trim() treat as white space.
WhiteSpace == {" ", "\t", "\n"}

UpperCase == <<"A","B","C","D","E","F","G","H","I","J","K","L","M",
               "N","O","P","Q","R","S","T","U","V","W","X","Y","Z">>
LowerCase == <<"a","b","c","d","e","f","g","h","i","j","k","l","m",
               "n","o","p","q","r","s","t","u","v","w","x","y","z">>

LowerCaseOf ==
    [c \in {UpperCase[k] : k \in 1..26} |->
        LowerCase[CHOOSE k \in 1..26 : UpperCase[k] = c]]

LowerChar(c) == IF c \in DOMAIN LowerCaseOf THEN LowerCaseOf[c] ELSE c

\* s.toLowerCase()
ToLowerCase(s) == [k \in 1..Len(s) |-> LowerChar(s[k])]

\* c repeated n times.
Rep(c, n) == [k \in 1..n |-> c]

\* t.includes(k)
Includes(t, k) ==
    \E a \in 0..(Len(t) - Len(k)) : SubSeq(t, a + 1, a + Len(k)) = k

\* s.startsWith(p)
StartsWith(s, p) == Len(s) >= Len(p) /\ SubSeq(s, 1, Len(p)) = p

RECURSIVE SkipWhiteSpace(_, _, _)
SkipWhiteSpace(s, k, d) ==
    IF k < 1 \/ k > Len(s) THEN k
    ELSE IF s[k] \in WhiteSpace THEN SkipWhiteSpace(s, k + d, d)
    ELSE k

\* s.trim()
Trim(s) ==
    LET a == SkipWhiteSpace(s, 1, 1)
        b == SkipWhiteSpace(s, Len(s), -1)
    IN  IF a > Len(s) THEN <<>> ELSE SubSeq(s, a, b)

\* s.replace(/\s+/g, ' ')
CollapseWhiteSpace(s) ==
    LET marked == [k \in 1..Len(s) |->
                     <<IF s[k] \in WhiteSpace THEN " " ELSE s[k],
                       k > 1 /\ s[k] \in WhiteSpace /\ s[k - 1] \in WhiteSpace>>]
        kept == SelectSeq(marked, LAMBDA p : ~p[2])
    IN  [k \in 1..Len(kept) |-> kept[k][1]]

Min(a, b) == IF a < b THEN a ELSE b

----------------------------------------------------------------------------
(* The DOM interface the callback uses. *)

\* Selector strings querySelector(All) rejects with a SyntaxError.
InvalidSelectors == {"li:::"}

NoAttrs == [a \in {} |-> <<>>]

Node(parent, sel, attrs, text) ==
    [parent |-> parent, sel |-> sel, attrs |-> attrs, text |-> text]

\* el.getAttribute(name)
GetAttribute(d, n, name) ==
    IF name \in DOMAIN d[n].attrs THEN d[n].attrs[name] ELSE Null

RECURSIVE HasAncestor(_, _, _)
HasAncestor(d, m, n) ==
    /\ d[m].parent # 0
    /\ (d[m].parent = n \/ HasAncestor(d, d[m].parent, n))

RECURSIVE TextFrom(_, _, _)
TextFrom(d, n, m) ==
    IF m > Len(d) THEN <<>>
    ELSE (IF m = n \/ HasAncestor(d, m, n) THEN d[m].text ELSE <<>>)
         \o TextFrom(d, n, m + 1)

\* el.textContent: the text of the node and of its descendants, in order.
TextContent(d, n) == TextFrom(d, n, n)

\* document.querySelectorAll(s), for a valid s: the matches in document order.
QuerySelectorAll(d, s) ==
    SelectSeq([k \in 1..Len(d) |-> k], LAMBDA m : s \in d[m].sel)

\* el.querySelector(s), for a valid s: the first matching descendant, 0 for null.
QuerySelector(d, n, s) ==
    LET hits == SelectSeq([k \in 1..Len(d) |-> k],
                          LAMBDA m : HasAncestor(d, m, n) /\ s \in d[m].sel)
    IN  IF hits = <<>> THEN 0 ELSE hits[1]

RECURSIVE Closest(_, _, _)
\* el.closest(s): the node itself or its nearest matching ancestor, 0 for null.
Closest(d, n, s) ==
    IF n = 0 THEN 0
    ELSE IF s \in d[n].sel THEN n
    ELSE Closest(d, d[n].parent, s)

----------------------------------------------------------------------------
(* scrapeWebsite: candidate discovery. *)

\* The minimum content length of the content filter.
MinContentLength == 50

\* /job|position|vacancy|career|hiring|employment|work|role|opportunity/
JobKeywordPattern ==
    {<<"j","o","b">>, <<"p","o","s","i","t","i","o","n">>, <<"v","a","c","a","n","c","y">>, <<"c","a","r","e","e","r">>, <<"h","i","r","i","n","g">>, <<"e","m","p","l","o","y","m","e","n","t">>,
     <<"w","o","r","k">>, <<"r","o","l","e">>, <<"o","p","p","o","r","t","u","n","i","t","y">>}

\* The content filter with the length compared by >= in place of >.
LikelyJobElementAtLeast(d, el) ==
    LET text == ToLowerCase(TextContent(d, el))
    IN  /\ \E w \in JobKeywordPattern : Includes(text, w)
        /\ Len(text) >= MinContentLength

\* The filter callback of findJobElements.
LikelyJobElement(d, el) ==
    LET text == ToLowerCase(TextContent(d, el))
        hasJobKeywords == \E w \in JobKeywordPattern : Includes(text, w)
        hasMinContent == Len(text) > MinContentLength
    IN  hasJobKeywords /\ hasMinContent

\* The custom container selector findJobElements reads from its argument.
CustomContainer(customSelectors) == customSelectors.jobContainer

CommonJobSelectors ==
    <<"[data-jk]", ".job_seen_beacon", ".job-card", ".job-item",
      ".job-listing", ".vacancy", ".position", ".career-item",
      ".job-result", ".opening", "[class*=\"job\"]",
      "[class*=\"position\"]", "[class*=\"vacancy\"]",
      "[class*=\"career\"]", "article", ".card", ".list-item", ".row",
      "tr", "li">>

\* The selector list with the custom selector tried last in place of first.
ContainerSelectorsCustomLast(customSelectors) ==
    CommonJobSelectors
    \o (IF CustomContainer(customSelectors) # ""
        THEN <<CustomContainer(customSelectors)>> ELSE <<>>)

\* The selector list findJobElements builds.
ContainerSelectors(customSelectors) ==
    (IF CustomContainer(customSelectors) # ""
     THEN <<CustomContainer(customSelectors)>> ELSE <<>>)
    \o CommonJobSelectors

\* found.filter(...) of one selector of the cascade.
FilteredMatches(d, s) ==
    SelectSeq(QuerySelectorAll(d, s), LAMBDA el : LikelyJobElement(d, el))

RECURSIVE SelectorCascade(_, _, _)
\* The cascade in which a selector that throws ends the search.
SelectorCascadeAborting(d, sels, k) ==
    IF \E j \in k..Len(sels) : sels[j] \in InvalidSelectors THEN <<>>
    ELSE LET first == {j \in k..Len(sels) : Len(FilteredMatches(d, sels[j])) > 0}
         IN  IF first = {} THEN <<>>
             ELSE FilteredMatches(d, sels[CHOOSE j \in first :
                                              \A h \in first : j <= h])

\* The for loop of findJobElements from the k-th selector on: a selector that
\* throws is skipped, the first non-empty filtered set is returned.
SelectorCascade(d, sels, k) ==
    IF k > Len(sels) THEN <<>>
    ELSE IF sels[k] \in InvalidSelectors THEN SelectorCascade(d, sels, k + 1)
    ELSE LET found == QuerySelectorAll(d, sels[k])
             filtered == FilteredMatches(d, sels[k])
         IN  IF Len(found) > 0 /\ Len(filtered) > 0
             THEN filtered
             ELSE SelectorCascade(d, sels, k + 1)

findJobElements(d, customSelectors) ==
    SelectorCascade(d, ContainerSelectors(customSelectors), 1)

----------------------------------------------------------------------------
(* scrapeWebsite: field extraction. *)

\* The value getTextBySelectors returns for a matched element.
ElementText(d, el) ==
    OrElse(OrElse(GetAttribute(d, el, "title"),
                  GetAttribute(d, el, "aria-label")),
           Trim(TextContent(d, el)))

RECURSIVE TextBySelectorsFrom(_, _, _, _)
\* The for loop of getTextBySelectors from the k-th selector on.
TextBySelectorsFrom(d, element, sels, k) ==
    IF k > Len(sels) THEN Null
    ELSE IF sels[k] = "" \/ sels[k] \in InvalidSelectors
         THEN TextBySelectorsFrom(d, element, sels, k + 1)
    ELSE LET el == QuerySelector(d, element, sels[k])
         IN  IF el # 0 THEN ElementText(d, el)
             ELSE TextBySelectorsFrom(d, element, sels, k + 1)

getTextBySelectors(d, element, sels) == TextBySelectorsFrom(d, element, sels, 1)

\* [...].filter(Boolean)
FilterBoolean(sels) == SelectSeq(sels, LAMBDA s : s # "")

titleSelectors(customSelectors) ==
    FilterBoolean(<<customSelectors.title, "h1", "h2", "h3", "h4",
        "[data-testid*=\"title\"]", "[class*=\"title\"]",
        "[class*=\"job-title\"]", "[class*=\"position\"]",
        "a[href*=\"job\"]", ".job-link", "strong", ".name">>)

companySelectors(customSelectors) ==
    FilterBoolean(<<customSelectors.company, "[data-testid*=\"company\"]",
        "[class*=\"company\"]", "[class*=\"employer\"]",
        "[class*=\"organization\"]", ".company-name", ".employer", ".org">>)

locationSelectors(customSelectors) ==
    FilterBoolean(<<customSelectors.location, "[data-testid*=\"location\"]",
        "[class*=\"location\"]", "[class*=\"city\"]", "[class*=\"address\"]",
        ".location", ".city", ".address">>)

salarySelectors(customSelectors) ==
    FilterBoolean(<<customSelectors.salary, "[data-testid*=\"salary\"]",
        "[class*=\"salary\"]", "[class*=\"pay\"]", "[class*=\"wage\"]",
        "[class*=\"compensation\"]", ".salary", ".pay", ".wage">>)

descriptionSelectors(customSelectors) ==
    FilterBoolean(<<customSelectors.description,
        "[data-testid*=\"description\"]", "[data-testid*=\"snippet\"]",
        "[class*=\"description\"]", "[class*=\"summary\"]",
        "[class*=\"snippet\"]", ".description", ".summary", ".snippet", "p">>)

dateSelectors(customSelectors) ==
    FilterBoolean(<<customSelectors.date, "[data-testid*=\"date\"]",
        "[class*=\"date\"]", "[class*=\"time\"]", "[class*=\"posted\"]",
        ".date", ".time", ".posted", "time">>)

\* `<<"{","n","e","w"," ","U","R","L","(","b","a","s","e","U","r","l",")",".","p","r","o","t","o","c","o","l","}","/","/">>{new URL(baseUrl).host}` of a base URL
\* scheme://host[:port][/path]: everything before the first "/" of the path.
RECURSIVE HostEnd(_, _)
HostEnd(b, k) ==
    IF k > Len(b) \/ b[k] \in {"/", "?", "#"} THEN k - 1 ELSE HostEnd(b, k + 1)

UrlOrigin(b) ==
    LET colon == CHOOSE k \in 1..Len(b) :
                     /\ b[k] = ":"
                     /\ \A j \in 1..(k - 1) : b[j] # ":"
    IN  SubSeq(b, 1, HostEnd(b, colon + 3))

\* The link element of the URL extraction, 0 when there is none.
LinkElement(d, element) ==
    LET inner == QuerySelector(d, element, "a[href]")
        outer == Closest(d, element, "a[href]")
    IN  IF inner # 0 THEN inner
        ELSE IF outer # 0 THEN outer
        ELSE QuerySelector(d, element, "[href]")

\* The href rewriting of the URL extraction.
ResolveHref(href, baseUrl) ==
    IF StartsWith(href, <<"/">>) THEN UrlOrigin(baseUrl) \o href
    ELSE IF ~StartsWith(href, <<"h","t","t","p">>) THEN baseUrl \o <<"/">> \o href
    ELSE href

\* job.url before the clean-up.
ExtractUrl(d, element, baseUrl) ==
    LET linkElement == LinkElement(d, element)
        href == IF linkElement # 0
                THEN GetAttribute(d, linkElement, "href") ELSE Null
    IN  IF Truthy(href) THEN ResolveHref(href, baseUrl) ELSE <<>>

\* job.jobId before the clean-up; token is `job_${Math.random()...}`.
ExtractJobId(d, element, token) ==
    OrElse(OrElse(OrElse(GetAttribute(d, element, "data-jk"),
                         GetAttribute(d, element, "id")),
                  GetAttribute(d, element, "data-id")),
           token)

\* The length over which a description is cut.
MaxDescription == 500

\* The clean-up with the cut made at the limit itself (>= in place of >).
CleanFieldAtLimit(key, value) ==
    LET s == CollapseWhiteSpace(Trim(value))
    IN  IF Len(s) >= MaxDescription /\ key = "description"
        THEN SubSeq(s, 1, MaxDescription) \o <<".",".",".">>
        ELSE s

\* The clean-up with the cut description trimmed before the ellipsis.
CleanFieldTrimmedCut(key, value) ==
    LET s == CollapseWhiteSpace(Trim(value))
    IN  IF Len(s) > MaxDescription /\ key = "description"
        THEN Trim(SubSeq(s, 1, MaxDescription)) \o <<".",".",".">>
        ELSE s

\* The clean-up of one string field.
CleanField(key, value) ==
    LET s == CollapseWhiteSpace(Trim(value))
    IN  IF Len(s) > MaxDescription /\ key = "description"
        THEN SubSeq(s, 1, MaxDescription) \o <<".",".",".">>
        ELSE s

\* The clean-up loop over Object.keys(job): every field is a string.
CleanUp(job) == [key \in DOMAIN job |-> CleanField(key, job[key])]

\* job before the clean-up.
RawJob(d, element, baseUrl, customSelectors, token, now) ==
    [title |-> OrElse(getTextBySelectors(d, element,
                          titleSelectors(customSelectors)), <<>>),
     company |-> OrElse(getTextBySelectors(d, element,
                          companySelectors(customSelectors)), <<>>),
     location |-> OrElse(getTextBySelectors(d, element,
                          locationSelectors(customSelectors)), <<>>),
     salary |-> OrElse(getTextBySelectors(d, element,
                          salarySelectors(customSelectors)), <<>>),
     description |-> OrElse(getTextBySelectors(d, element,
                          descriptionSelectors(customSelectors)), <<>>),
     url |-> ExtractUrl(d, element, baseUrl),
     datePosted |-> OrElse(getTextBySelectors(d, element,
                          dateSelectors(customSelectors)), <<>>),
     jobId |-> ExtractJobId(d, element, token),
     scrapedAt |-> now,
     source |-> baseUrl]

extractJobData(d, element, baseUrl, customSelectors, token, now) ==
    CleanUp(RawJob(d, element, baseUrl, customSelectors, token, now))

\* `<<"{","j","o","b",".","t","i","t","l","e","}"," ">>{job.description} ${job.company}`.toLowerCase()
JobText(job) ==
    ToLowerCase(job.title \o <<" ">> \o job.description \o <<" ">> \o job.company)

\* The keyword test with the keyword compared as written.
HasKeywordAsWritten(job, kws) ==
    \E k \in 1..Len(kws) : Includes(JobText(job), kws[k])

RECURSIVE SomeKeyword(_, _, _)
\* keywords.some(keyword => jobText.includes(keyword.toLowerCase())) from
\* the k-th keyword on: "true" at the first keyword the text includes,
\* "throws" at a keyword that is not a string (it has no toLowerCase) if no
\* keyword before it is included, "false" at the end of the list.
SomeKeyword(jobText, kws, k) ==
    IF k > Len(kws) THEN "false"
    ELSE IF kws[k] = Null THEN "throws"
    ELSE IF Includes(jobText, ToLowerCase(kws[k])) THEN "true"
    ELSE SomeKeyword(jobText, kws, k + 1)

\* const hasKeyword = keywords.some(...)
HasKeyword(job, kws) == SomeKeyword(JobText(job), kws, 1) = "true"

\* The TypeError of the keyword filter, which the catch of the loop takes.
KeywordFilterThrows(job, kws) == SomeKeyword(JobText(job), kws, 1) = "throws"

\* The keyword filter of the loop: false is the `continue`.
PassesKeywords(job, kws) == Len(kws) > 0 => HasKeyword(job, kws)

\* job.title && job.title.trim().length > 0
HasTitle(job) == Truthy(job.title) /\ Len(Trim(job.title)) > 0

----------------------------------------------------------------------------
(* scrapeIndeed: the record of one [data-jk] element. *)

\* String(v) in a concatenation: null becomes "null".
JsString(v) == IF v = Null THEN <<"n","u","l","l">> ELSE v

\* el ? el.textContent.trim() : 'N/A'
TrimmedTextOrNA(d, el) == IF el # 0 THEN Trim(TextContent(d, el)) ELSE <<"N","/","A">>

IndeedJob(d, jobElement, now) ==
    LET titleElement == QuerySelector(d, jobElement, "h2 a span[title]")
        linkElement == QuerySelector(d, jobElement, "h2 a")
    IN  [title |-> IF titleElement # 0
                   THEN GetAttribute(d, titleElement, "title") ELSE <<"N","/","A">>,
         company |-> TrimmedTextOrNA(d, QuerySelector(d, jobElement,
                         "[data-testid=\"company-name\"]")),
         location |-> TrimmedTextOrNA(d, QuerySelector(d, jobElement,
                         "[data-testid=\"job-location\"]")),
         salary |-> TrimmedTextOrNA(d, QuerySelector(d, jobElement,
                         "[data-testid=\"attribute_snippet_testid\"]")),
         summary |-> TrimmedTextOrNA(d, QuerySelector(d, jobElement,
                         "[data-testid=\"job-snippet\"]")),
         url |-> IF linkElement # 0
                 THEN <<"h","t","t","p","s",":","/","/","w","w","w",".","i","n","d","e","e","d",".","c","o","m">>
                      \o JsString(GetAttribute(d, linkElement, "href"))
                 ELSE <<"N","/","A">>,
         datePosted |-> TrimmedTextOrNA(d, QuerySelector(d, jobElement,
                         "[data-testid=\"myJobsStateDate\"]")),
         jobId |-> GetAttribute(d, jobElement, "data-jk"),
         scrapedAt |-> now]

\* job.title !== 'N/A' && job.title.length > 0
HasValidTitle(job) == job.title # <<"N","/","A">> /\ Len(job.title) > 0

----------------------------------------------------------------------------
(* The inputs: documents built from blocks, and the arguments of a call. *)

\* A block is a subtree: nodes in document order, parents counted inside the
\* block (0: the block hangs under the body).
RECURSIVE Assemble(_)
Assemble(blocks) ==
    IF blocks = <<>> THEN <<>>
    ELSE LET rest == Assemble(Tail(blocks))
             n == Len(Head(blocks))
             shifted == [k \in 1..Len(rest) |->
                           [rest[k] EXCEPT !.parent =
                               IF @ = 0 THEN 0 ELSE @ + n]]
         IN  Head(blocks) \o shifted

SeqsUpTo(S, n) == UNION {[1..m -> S] : m \in 0..n}

Link(parent, href) ==
    Node(parent, {"a[href]", "[href]"}, [href |-> href], <<"A","p","p","l","y">>)

\* A job card with an id, a heading, an empty company logo before the company
\* name, a paragraph and a link.
CardA ==
    <<Node(0, {".job-card", "[class*=\"job\"]"}, [id |-> <<"a","7">>], <<>>),
      Node(1, {"h2"}, NoAttrs, <<"B","a","c","k","e","n","d"," ","E","n","g","i","n","e","e","r">>),
      Node(1, {"[data-testid*=\"company\"]"}, NoAttrs, <<>>),
      Node(1, {"[class*=\"company\"]", ".company-name"}, NoAttrs, <<"A","c","m","e">>),
      Node(1, {"p"}, NoAttrs,
           <<"O","p","e","n"," ","p","o","s","i","t","i","o","n"," ","i","n"," ","o","u","r"," ","p","l","a","t","f","o","r","m"," ","t","e","a","m",","," ","r","e","m","o","t","e"," ","w","o","r","k",".">>),
      Link(1, <<"/","j","o","b","s","/","1","2","3">>)>>

\* A list item the custom selector .mine matches too.
CardB ==
    <<Node(0, {"li", ".mine"}, ("data-id" :> <<"a","1">>), <<>>),
      Node(1, {"h3"}, NoAttrs, <<"D","a","t","a"," ","A","n","a","l","y","s","t">>),
      Node(1, {"p"}, NoAttrs, <<"A","n","a","l","y","s","e"," ","h","i","r","i","n","g"," ","d","a","t","a"," ","f","o","r"," ","t","h","e"," ","c","a","r","e","e","r","s"," ","g","r","o","u","p",".">>),
      Link(1, <<"j","o","b","s","/","1","2","3">>)>>

\* A card of exactly 50 characters that names a job.
CardC ==
    <<Node(0, {".job-card", "[class*=\"job\"]", ".mine", "li"}, NoAttrs,
           <<"J","o","b">> \o Rep("x", 47))>>

\* A list item whose id repeats CardB's data-id, with a heading and a .name.
CardD ==
    <<Node(0, {"li"}, [id |-> <<"a","1">>], <<>>),
      Node(1, {"h2"}, NoAttrs, <<"R","e","l","i","a","b","i","l","i","t","y"," ","L","e","a","d">>),
      Node(1, {".name"}, NoAttrs, <<"S","i","t","e"," ","R","e","l","i","a","b","i","l","i","t","y"," ","R","o","l","e">>),
      Node(1, {"p"}, NoAttrs, <<"K","e","e","p"," ","t","h","e"," ","p","r","o","d","u","c","t","i","o","n"," ","s","y","s","t","e","m","s"," ","r","u","n","n","i","n","g"," ","s","m","o","o","t","h","l","y",".">>)>>

\* A list item with no heading at all.
CardF ==
    <<Node(0, {"li"}, NoAttrs, <<>>),
      Node(1, {"p"}, NoAttrs,
           <<"W","e"," ","a","r","e"," ","h","i","r","i","n","g",":"," ","a"," ","g","r","e","a","t"," ","o","p","p","o","r","t","u","n","i","t","y"," ","t","o"," ","j","o","i","n"," ","u","s"," ","t","o","d","a","y",".">>)>>

\* A list item of 60 characters that names no job.
CardE == <<Node(0, {"li"}, NoAttrs, Rep("x", 60))>>

\* A list item of exactly 49 characters, and one of 51, that name a job.
Card49 == <<Node(0, {"li"}, NoAttrs, <<"j","o","b">> \o Rep("x", 46))>>
Card51 == <<Node(0, {"li"}, NoAttrs, <<"j","o","b">> \o Rep("x", 48))>>

BlockPool == {CardA, CardB, CardC, CardD}

\* The root of the single-card documents: it passes the content filter.
FieldRoot(attrs) ==
    Node(0, {"li"}, attrs,
         <<"W","e"," ","a","r","e"," ","h","i","r","i","n","g"," ","f","o","r"," ","t","h","i","s"," ","r","o","l","e",","," ","s","e","e"," ","t","h","e"," ","d","e","t","a","i","l","s"," ","b","e","l","o","w",":"," ">>)

Heading(text) == Node(1, {"h2"}, NoAttrs, text)

DescriptionTails ==
    {<<>>, <<" ","y">>, <<" "," ","y">>, <<" ","y"," ","z">>, <<"y","z">>, <<"\t", "\n", "y">>}

\* Paragraphs around the description limit: 497..500 x's and a tail.
DescriptionTexts ==
    {Rep("x", MaxDescription - k) \o t : k \in 0..3, t \in DescriptionTails}

DescriptionCards ==
    {<<FieldRoot(NoAttrs), Heading(<<"D","e","v">>), Node(1, {"p"}, NoAttrs, t)>> :
        t \in DescriptionTexts}

Hrefs ==
    {<<"/","j","o","b","s","/","1","2","3">>, <<"h","t","t","p","s",":","/","/","o","t","h","e","r",".","c","o","m","/","x">>, <<"j","o","b","s","/","1","2","3">>, <<"m","a","i","l","t","o",":","h","r","@","e","x","a","m","p","l","e",".","c","o","m">>,
     <<"f","t","p",":","/","/","o","t","h","e","r",".","c","o","m","/","x">>, <<"h","t","t","p","-","j","o","b","s","/","1">>, <<"/","/","c","d","n",".","e","x","a","m","p","l","e",".","c","o","m","/","j">>, <<>>}

LinkCards ==
    {<<FieldRoot(NoAttrs), Heading(<<"D","e","v">>), Link(1, h)>> : h \in Hrefs}
    \cup {\* the card sits inside an anchor
          <<Node(0, {"a[href]", "[href]"}, [href |-> <<"/","j","o","b","s","/","9">>], <<>>),
            [FieldRoot(NoAttrs) EXCEPT !.parent = 1],
            Node(2, {"h2"}, NoAttrs, <<"D","e","v">>)>>,
          \* only a non-anchor element carries an href
          <<FieldRoot(NoAttrs), Heading(<<"D","e","v">>),
            Node(1, {"[href]"}, [href |-> <<"a","p","p","l","y",".","h","t","m","l">>], <<>>)>>}

IdCards ==
    {<<FieldRoot(a), Heading(<<"D","e","v">>)>> :
        a \in {("data-jk" :> <<"j","k","1">>) @@ ("id" :> <<"i","1">>) @@ ("data-id" :> <<"d","1">>),
               ("data-jk" :> <<>>) @@ ("id" :> <<"i","2">>),
               ("data-id" :> <<"d","1">>),
               ("id" :> <<" ">>)}}

TitleCards ==
    {<<FieldRoot(NoAttrs),
       Node(1, {"h2"}, [title |-> <<" ", " ">> \o <<"S","e","n","i","o","r"," "," "," ","D","e","v"," ">>], <<"x">>)>>,
     <<FieldRoot(NoAttrs),
       Node(1, {"h2"}, ("aria-label" :> <<"L","e","a","d">>), <<"x">>)>>,
     <<FieldRoot(NoAttrs),
       Node(1, {"h2"}, NoAttrs, <<" ", "\n">>),
       Node(1, {"strong"}, NoAttrs, <<"R","e","a","l"," ","T","i","t","l","e">>)>>,
     <<FieldRoot(NoAttrs), Node(1, {"p"}, NoAttrs, <<"n","o"," ","h","e","a","d","i","n","g"," ","h","e","r","e">>)>>}

\* A card whose company name is longer than the description limit.
LongCompanyCard ==
    <<FieldRoot(NoAttrs), Heading(<<"D","e","v">>),
      Node(1, {".company-name"}, NoAttrs, Rep("c", MaxDescription + 1))>>

SingleCards ==
    DescriptionCards \cup LinkCards \cup IdCards \cup TitleCards
    \cup {Card49, Card51, CardE, CardF, LongCompanyCard}

\* The selectors argument; an absent field reads as "".
NoCustom ==
    [jobContainer |-> "", container |-> "", title |-> "", company |-> "",
     location |-> "", salary |-> "", description |-> "", date |-> ""]

CustomSelectorChoices ==
    {[NoCustom EXCEPT !.jobContainer = ".mine"],
     [NoCustom EXCEPT !.container = ".mine"],
     [NoCustom EXCEPT !.jobContainer = "li:::", !.title = ".name"]}

KeywordChoices == {<<<<"E","N","G","I","N","E","E","R">>>>, <<<<"z","z","z">>, <<"A","n","a","l","y","s","t">>>>, <<<<"R"," ","o">>>>}

\* The selectors and keywords of a call: custom selectors, or keywords, or
\* neither, or selectors that throw with a keyword that is not a string.
ArgumentChoices ==
    {<<NoCustom, <<>>>>,
     <<[NoCustom EXCEPT !.jobContainer = "li:::", !.title = "li:::"],
       <<<<"A","n","a","l","y","s","t">>, Null>>>>}
    \cup {<<s, <<>>>> : s \in CustomSelectorChoices}
    \cup {<<NoCustom, k>> : k \in KeywordChoices}

BaseUrls == {<<"h","t","t","p","s",":","/","/","e","x","a","m","p","l","e",".","c","o","m","/","s","e","a","r","c","h">>, <<"h","t","t","p",":","/","/","j","o","b","s",".","e","x","a","m","p","l","e",".","o","r","g",":","8","0","8","0">>}

\* The suffixes Math.random().toString(36).substr(2, 9) may produce.
RandomSuffixes == {<<"k","3","j","2","n","1","x","0","q">>, <<"7","h","q">>}

\* new Date().toISOString()
Timestamp == <<"2","0","2","6","-","0","1","-","0","1","T","0","0",":","0","0",":","0","0",".","0","0","0","Z">>

\* Indeed result cards.
IndeedTitle(parent, title) ==
    <<Node(parent, {"h2 a"}, [href |-> <<"/","r","c","/","c","l","k","?","j","k","=","k","1">>], <<>>),
      Node(parent + 1, {"h2 a span[title]"}, [title |-> title], title)>>

IndeedRoot(jk) == Node(0, {"[data-jk]"}, ("data-jk" :> jk), <<>>)

IndeedPool ==
    {<<IndeedRoot(<<"k","1">>)>> \o IndeedTitle(1, <<"D","e","v">>)
        \o <<Node(1, {"[data-testid=\"company-name\"]"}, NoAttrs, <<" ","A","c","m","e"," ">>)>>,
     <<IndeedRoot(<<"k","1">>)>> \o IndeedTitle(1, <<" ">>),
     <<IndeedRoot(<<"k","2">>)>> \o IndeedTitle(1, <<>>),
     <<IndeedRoot(<<"k","3">>),
       Node(1, {"[data-testid=\"job-snippet\"]"}, NoAttrs, <<"n","o"," ","t","i","t","l","e">>)>>}

----------------------------------------------------------------------------
(* The state machine. *)

InitCall ==
    /\ pc = "start"
    /\ jobElements = <<>>
    /\ i = 0
    /\ extractedJobs = <<>>
    /\ extractCalls = <<>>
    /\ pushedFrom = <<>>
    /\ caught = <<>>

\* scrapeWebsite on a document of several cards.
InitWebsite ==
    /\ engine = "website"
    /\ doc \in {Assemble(b) : b \in SeqsUpTo(BlockPool, MaxBlocks)}
    /\ url = <<"h","t","t","p","s",":","/","/","e","x","a","m","p","l","e",".","c","o","m","/","s","e","a","r","c","h">>
    /\ \E a \in ArgumentChoices : selectors = a[1] /\ keywords = a[2]
    /\ limit \in 0..MaxLimit

\* scrapeWebsite on a document of one card.
InitWebsiteCard ==
    /\ engine = "website"
    /\ doc \in SingleCards
    /\ url \in BaseUrls
    /\ keywords \in {<<>>, <<<<"D","E","V">>>>}
    /\ selectors = NoCustom
    /\ limit = MaxLimit

\* scrapeIndeed: the callback runs once waitForSelector('[data-jk]') found
\* an element; it is handed the limit alone.
InitIndeed ==
    /\ engine = "indeed"
    /\ doc \in {Assemble(b) : b \in SeqsUpTo(IndeedPool, MaxBlocks) \ {<<>>}}
    /\ url = <<"h","t","t","p","s",":","/","/","w","w","w",".","i","n","d","e","e","d",".","c","o","m","/","j","o","b","s">>
    /\ keywords = <<>>
    /\ selectors = NoCustom
    /\ limit \in 0..MaxLimit

\* The loop bound that forgets the limit.
LoopEndAllElements(elements, lim) == Len(elements)

\* Math.min(jobElements.length, limit), the bound of both extraction loops.
LoopEnd(elements, lim) == Min(Len(elements), lim)

\* No HTTP request is looked at: the callback is followed on its own.
NoServer ==
    /\ request = <<>>
    /\ rpc = <<>>
    /\ site = <<>>
    /\ browser = <<>>
    /\ outcome = <<>>
    /\ results = <<>>
    /\ response = <<>>
    /\ trace = <<>>

Init == InitCall /\ (InitWebsite \/ InitWebsiteCard \/ InitIndeed) /\ NoServer

\* const jobElements = findJobElements(selectors)
FindJobElements ==
    /\ pc = "start" /\ engine = "website"
    /\ jobElements' = findJobElements(doc, selectors)
    /\ pc' = "loop"
    /\ UNCHANGED <<engine, doc, url, keywords, selectors, limit, i,
                   extractedJobs, extractCalls, pushedFrom, caught>>
    /\ UNCHANGED serverVars

\* const jobElements = document.querySelectorAll('[data-jk]')
FindIndeedElements ==
    /\ pc = "start" /\ engine = "indeed"
    /\ jobElements' = QuerySelectorAll(doc, "[data-jk]")
    /\ pc' = "loop"
    /\ UNCHANGED <<engine, doc, url, keywords, selectors, limit, i,
                   extractedJobs, extractCalls, pushedFrom, caught>>
    /\ UNCHANGED serverVars

\* One iteration of scrapeWebsite's extraction loop.
ExtractWebsiteJob ==
    /\ pc = "loop" /\ engine = "website"
    /\ i < LoopEnd(jobElements, limit)
    /\ \E suffix \in RandomSuffixes :
        LET jobElement == jobElements[i + 1]
            job == extractJobData(doc, jobElement, url, selectors,
                                  <<"j","o","b","_">> \o suffix, Timestamp)
            throws == Len(keywords) > 0 /\ KeywordFilterThrows(job, keywords)
            push == ~throws /\ PassesKeywords(job, keywords) /\ HasTitle(job)
        IN  /\ caught' = IF throws THEN Append(caught, jobElement) ELSE caught
            /\ extractedJobs' =
                   IF push THEN Append(extractedJobs, job) ELSE extractedJobs
            /\ pushedFrom' =
                   IF push THEN Append(pushedFrom, jobElement) ELSE pushedFrom
            /\ extractCalls' = Append(extractCalls, jobElement)
    /\ i' = i + 1
    /\ UNCHANGED <<engine, doc, url, keywords, selectors, limit, pc,
                   jobElements>>
    /\ UNCHANGED serverVars

\* One iteration of scrapeIndeed's extraction loop.
ExtractIndeedJob ==
    /\ pc = "loop" /\ engine = "indeed"
    /\ i < LoopEnd(jobElements, limit)
    /\ LET jobElement == jobElements[i + 1]
           job == IndeedJob(doc, jobElement, Timestamp)
           push == HasValidTitle(job)
       IN  /\ extractedJobs' =
                  IF push THEN Append(extractedJobs, job) ELSE extractedJobs
           /\ pushedFrom' =
                  IF push THEN Append(pushedFrom, jobElement) ELSE pushedFrom
           /\ extractCalls' = Append(extractCalls, jobElement)
    /\ i' = i + 1
    /\ UNCHANGED <<engine, doc, url, keywords, selectors, limit, pc,
                   jobElements, caught>>
    /\ UNCHANGED serverVars

\* return extractedJobs
ReturnJobs ==
    /\ pc = "loop"
    /\ i >= LoopEnd(jobElements, limit)
    /\ pc' = "done"
    /\ UNCHANGED <<engine, doc, url, keywords, selectors, limit, jobElements,
                   i, extractedJobs, extractCalls, pushedFrom, caught>>
    /\ UNCHANGED serverVars

Next ==
    \/ FindJobElements
    \/ FindIndeedElements
    \/ ExtractWebsiteJob
    \/ ExtractIndeedJob
    \/ ReturnJobs

Spec == Init /\ [][Next]_vars

----------------------------------------------------------------------------
(* Properties of candidate discovery. *)

Discovered == pc # "start" /\ engine = "website"

Range(s) == {s[k] : k \in 1..Len(s)}

\* The text of an element names a job: it holds a word of the lexicon, in
\* any case.
NamesJob(el) ==
    \E w \in JobKeywordPattern : Includes(ToLowerCase(TextContent(doc, el)), w)

\* An element passes a content filter whose shortest accepted text has n
\* characters.
Accepted(n, el) == NamesJob(el) /\ Len(TextContent(doc, el)) >= n

\* The elements of the document a valid selector matches.
MatchesOf(s) ==
    IF s \in InvalidSelectors THEN {}
    ELSE {el \in 1..Len(doc) : s \in doc[el].sel}

\* The candidate set is what a content filter accepting texts of n or more
\* characters leaves of some selector's matches, and is empty only if that
\* filter leaves nothing of any selector's matches.
ContentFilterFrom(n) ==
    Discovered =>
        /\ \A el \in Range(jobElements) : Accepted(n, el)
        /\ jobElements # <<>> =>
              \E k \in 1..Len(ContainerSelectors(selectors)) :
                  Range(jobElements) =
                      {el \in MatchesOf(ContainerSelectors(selectors)[k]) :
                          Accepted(n, el)}
        /\ jobElements = <<>> =>
              \A k \in 1..Len(ContainerSelectors(selectors)) :
                  \A el \in MatchesOf(ContainerSelectors(selectors)[k]) :
                      ~Accepted(n, el)

\* C1, as claimed: an element of exactly 50 characters that names a job is
\* kept by the content filter, one of 49 is not, and one that names no job
\* is not, whatever its length.
C1_FilterKeepsFiftyCharacters == ContentFilterFrom(50)

\* C1, amended: an element of exactly 51 characters that names a job is kept
\* by the content filter, one of 50 or fewer is not, and one that names no
\* job is not, whatever its length.
C1_FilterKeepsFiftyOneCharacters == ContentFilterFrom(51)

\* A card of exactly 51 characters became a candidate.
C1_Witness ==
    /\ pc = "done" /\ engine = "website"
    /\ \E el \in Range(jobElements) : Len(TextContent(doc, el)) = 51

\* The filtered matches of a selector, in document order; none for a
\* selector the browser rejects.
Kept(s) == IF s \in InvalidSelectors THEN <<>> ELSE FilteredMatches(doc, s)

\* result is the filtered set of the first selector of sels whose filtered
\* set is not empty, and is empty if there is no such selector.
FirstMatchWins(sels, result) ==
    LET kept == [k \in 1..Len(sels) |-> Kept(sels[k])]
    IN  \/ \E k \in 1..Len(sels) :
              /\ kept[k] # <<>>
              /\ \A j \in 1..(k - 1) : kept[j] = <<>>
              /\ result = kept[k]
        \/ /\ \A k \in 1..Len(sels) : kept[k] = <<>>
           /\ result = <<>>

\* The cascade with a given custom selector in front of the built-in list.
CascadeWith(custom) ==
    (IF custom # "" THEN <<custom>> ELSE <<>>) \o CommonJobSelectors

\* C2, as claimed: the candidate set is the filtered set of the first
\* selector, in the order [the selectors' field container, the built-in
\* list], whose filtered set is not empty.
C2_ContainerFieldFirst ==
    Discovered => FirstMatchWins(CascadeWith(selectors.container), jobElements)

\* C2, amended: the candidate set is the filtered set of the first selector,
\* in the order [the selectors' field jobContainer, the built-in list], whose
\* filtered set is not empty, and is empty if there is none; the field
\* container is not read.
C2_JobContainerFieldFirst ==
    Discovered =>
        FirstMatchWins(CascadeWith(selectors.jobContainer), jobElements)

\* The custom selector and a built-in one keep different sets, and the
\* candidates are the custom selector's.
C2_Witness ==
    /\ pc = "done" /\ engine = "website"
    /\ selectors.jobContainer # ""
    /\ Kept(selectors.jobContainer) # <<>>
    /\ \E k \in 1..Len(CommonJobSelectors) :
          /\ Kept(CommonJobSelectors[k]) # <<>>
          /\ Kept(CommonJobSelectors[k]) # Kept(selectors.jobContainer)
    /\ jobElements = Kept(selectors.jobContainer)

----------------------------------------------------------------------------
(* Properties of field extraction. *)

Returned == pc = "done" /\ engine = "website"

\* Trimmed, with every run of white space collapsed to one space.
Normalized(s) == CollapseWhiteSpace(Trim(s))

TextFields ==
    {"title", "company", "location", "salary", "description", "datePosted"}

\* The fallback chain of a field.
FieldSelectors(f) ==
    CASE f = "title" -> titleSelectors(selectors)
      [] f = "company" -> companySelectors(selectors)
      [] f = "location" -> locationSelectors(selectors)
      [] f = "salary" -> salarySelectors(selectors)
      [] f = "description" -> descriptionSelectors(selectors)
      [] f = "datePosted" -> dateSelectors(selectors)

\* What each selector of a chain yields inside a candidate: the matched
\* element's title attribute, else its aria-label, else its trimmed text;
\* nothing when the selector is rejected or matches no element.
Yields(el, sels) ==
    [k \in 1..Len(sels) |->
        IF sels[k] \in InvalidSelectors \/ QuerySelector(doc, el, sels[k]) = 0
        THEN <<>>
        ELSE ElementText(doc, QuerySelector(doc, el, sels[k]))]

\* The result of the first selector of the chain that yields a non-empty
\* result, the empty string if none does.
FirstNonEmpty(el, sels) ==
    LET y == Yields(el, sels)
        hits == {k \in 1..Len(sels) : y[k] # <<>>}
    IN  IF hits = {} THEN <<>>
        ELSE y[CHOOSE k \in hits : \A j \in hits : k <= j]

\* C3: every field of a record is the result of the first selector of its
\* chain, [custom selector, generic list], that yields a non-empty result; a
\* selector whose matched element yields nothing does not stop the chain.
C3_FirstNonEmptySelectorWins ==
    engine = "website" =>
        \A k \in 1..Len(extractedJobs) : \A f \in TextFields :
            extractedJobs[k][f] =
                CleanField(f, FirstNonEmpty(pushedFrom[k], FieldSelectors(f)))

----------------------------------------------------------------------------
(* Properties of the extraction loop. *)

Increasing(s) == \A a, b \in 1..Len(s) : a < b => s[a] < s[b]

\* C4: the output is never longer than the limit, its records follow the
\* document order of the candidates, and a record is built only for the
\* first `limit` candidates, one after the other: by the end, for exactly
\* these.
C4_LimitBoundsOutputAndExtraction ==
    /\ Len(extractedJobs) <= limit
    /\ Len(pushedFrom) = Len(extractedJobs)
    /\ Increasing(jobElements)
    /\ Increasing(pushedFrom)
    /\ Range(pushedFrom) \subseteq Range(extractCalls)
    /\ Len(extractCalls) <= limit
    /\ Len(extractCalls) <= Len(jobElements)
    /\ \A k \in 1..Len(extractCalls) : extractCalls[k] = jobElements[k]
    /\ pc = "done" =>
          Len(extractCalls) = Min(Len(jobElements), limit)

\* There were more candidates than the limit, a candidate within the limit
\* was dropped, and the output stayed short of the limit.
C4_Witness ==
    /\ pc = "done"
    /\ limit > 0
    /\ Len(jobElements) > limit
    /\ Len(extractCalls) = limit
    /\ Len(extractedJobs) < limit

\* The identifier attribute the job id is taken from: data-jk, else id, else
\* data-id, the first that is not empty; Null when there is none.
IdentifierOf(el) ==
    LET jk == GetAttribute(doc, el, "data-jk")
        id == GetAttribute(doc, el, "id")
        dataId == GetAttribute(doc, el, "data-id")
    IN  IF jk # Null /\ jk # <<>> THEN jk
        ELSE IF id # Null /\ id # <<>> THEN id
        ELSE IF dataId # Null /\ dataId # <<>> THEN dataId
        ELSE Null

\* C5: every record of the output has a non-empty jobId and no two records
\* of the output share a jobId.
C5_JobIdsNonEmptyAndUnique ==
    engine = "website" =>
        \A k \in 1..Len(extractedJobs) :
            /\ extractedJobs[k].jobId # <<>>
            /\ \A j \in 1..Len(extractedJobs) :
                  j # k => extractedJobs[j].jobId # extractedJobs[k].jobId

\* The priority order of C5 alone: the jobId of a record is the normalized
\* value of the first non-empty attribute among data-jk, id and data-id of
\* its candidate, else a random token job_...; it is empty only when that
\* attribute holds white space alone.
JobIdFromFirstIdentifier ==
    engine = "website" =>
        \A k \in 1..Len(extractedJobs) :
            LET from == IdentifierOf(pushedFrom[k])
                jobId == extractedJobs[k].jobId
            IN  /\ from # Null => jobId = Normalized(from)
                /\ from = Null =>
                      \E s \in RandomSuffixes : jobId = <<"j","o","b","_">> \o s
                /\ jobId = <<>> =>
                      /\ from # Null
                      /\ \A c \in 1..Len(from) : from[c] \in WhiteSpace

\* Two candidates with different identifier attributes of one value are both
\* in the output.
C5_Witness ==
    /\ Returned
    /\ \E j, k \in 1..Len(extractedJobs) :
          /\ j # k
          /\ Truthy(GetAttribute(doc, pushedFrom[j], "id"))
          /\ GetAttribute(doc, pushedFrom[j], "id")
                = GetAttribute(doc, pushedFrom[k], "data-id")

\* The record scrapeWebsite builds for a candidate (the random token only
\* shows in its jobId).
BuiltJob(el) ==
    extractJobData(doc, el, url, selectors, <<"j","o","b","_">>, Timestamp)

Pushed(el) == el \in Range(pushedFrom)

\* C6: every record of the output of a call, of either engine, has a title
\* that is not empty after normalization.
C6_NoRecordWithoutTitle ==
    \A k \in 1..Len(extractedJobs) :
        Normalized(extractedJobs[k].title) # <<>>

\* What holds of the titles: in scrapeWebsite every record has a title that
\* is not empty after normalization, a candidate without one is dropped, and
\* every other candidate within the limit is still processed and is in the
\* output if and only if it has a title and passes the keyword filter; in
\* scrapeIndeed, which does not normalize, a title is neither empty nor N/A.
TitlesOfRecords ==
    /\ engine = "website" =>
          \A k \in 1..Len(extractedJobs) :
              Normalized(extractedJobs[k].title) # <<>>
    /\ engine = "indeed" =>
          \A k \in 1..Len(extractedJobs) :
              extractedJobs[k].title # <<>> /\ extractedJobs[k].title # <<"N","/","A">>
    /\ Returned =>
          /\ extractCalls = SubSeq(jobElements, 1, Min(Len(jobElements), limit))
          /\ \A el \in Range(extractCalls) :
                LET job == BuiltJob(el)
                IN  Pushed(el) <=>
                        /\ Normalized(job.title) # <<>>
                        /\ PassesKeywords(job, keywords)

\* scrapeIndeed returned a record for a card whose title is white space.
C6_Witness ==
    /\ pc = "done"
    /\ engine = "indeed"
    /\ \E k \in 1..Len(extractedJobs) :
          /\ extractedJobs[k].title # <<>>
          /\ \A c \in 1..Len(extractedJobs[k].title) :
                extractedJobs[k].title[c] \in WhiteSpace

\* With a list of keywords, all of them strings, a candidate with a title is
\* in the output if and only if a keyword, lower-cased, is part of the
\* lower-cased text; with an empty list every candidate with a title is.
KeywordFilterOver(Text(_)) ==
    Returned /\ (\A k \in 1..Len(keywords) : keywords[k] # Null) =>
        \A el \in Range(extractCalls) :
            LET job == BuiltJob(el)
                text == ToLowerCase(Text(job))
            IN  Pushed(el) <=>
                    /\ Normalized(job.title) # <<>>
                    /\ \/ keywords = <<>>
                       \/ \E k \in 1..Len(keywords) :
                             Includes(text, ToLowerCase(keywords[k]))

Concatenated(job) == job.title \o job.description \o job.company

JoinedBySpaces(job) ==
    job.title \o <<" ">> \o job.description \o <<" ">> \o job.company

\* C7, as claimed: the text is the concatenation of the normalized title,
\* description and company.
C7_KeywordInConcatenation == KeywordFilterOver(Concatenated)

\* C7, amended: the text is the normalized title, description and company
\* joined by single spaces.
C7_KeywordInFieldsJoinedBySpaces == KeywordFilterOver(JoinedBySpaces)

\* An upper-case keyword kept one candidate and dropped another that has a
\* title.
C7_Witness ==
    /\ Returned
    /\ \E k \in 1..Len(keywords) : keywords[k] # ToLowerCase(keywords[k])
    /\ \E a, b \in Range(extractCalls) :
          /\ Pushed(a)
          /\ ~Pushed(b) /\ Normalized(BuiltJob(b).title) # <<>>

Letters == Range(LowerCase) \cup Range(UpperCase)

\* An absolute URL: a scheme (a letter, then letters, digits, +, - or .)
\* followed by a colon.
IsAbsoluteUrl(href) ==
    \E k \in 2..Len(href) :
        /\ href[k] = ":"
        /\ href[1] \in Letters
        /\ \A j \in 1..(k - 1) :
              href[j] \in Letters
                \cup {"0","1","2","3","4","5","6","7","8","9","+","-","."}

\* The url the claim gives a found href.
ClaimedUrl(href, baseUrl) ==
    IF StartsWith(href, <<"/">>) THEN UrlOrigin(baseUrl) \o href
    ELSE IF IsAbsoluteUrl(href) THEN href
    ELSE baseUrl \o <<"/">> \o href

\* C8: the url of a record is empty when its candidate has no href; a found
\* href that begins with / follows the scheme and host of the base URL, an
\* absolute URL is kept as it is, and any other href follows the base URL and
\* a /.
C8_AbsoluteHrefUnchanged ==
    engine = "website" =>
        \A k \in 1..Len(extractedJobs) :
            LET linkElement == LinkElement(doc, pushedFrom[k])
                href == IF linkElement = 0 THEN Null
                        ELSE GetAttribute(doc, linkElement, "href")
            IN  extractedJobs[k].url =
                    IF href = Null \/ href = <<>> THEN <<>>
                    ELSE Normalized(ClaimedUrl(href, url))

----------------------------------------------------------------------------
(* Properties of the clean-up. *)

\* The record of candidate k of the output before the clean-up, for a token.
RawOf(k, suffix) ==
    RawJob(doc, pushedFrom[k], url, selectors, <<"j","o","b","_">> \o suffix, Timestamp)

\* C9: a description is never longer than 503 characters; one whose
\* normalized length is 501 or more is its first 500 characters and "...",
\* one of 500 or less is unchanged; every other field is its normalized
\* text, whatever its length.
C9_DescriptionBoundedAt500 ==
    Returned =>
        \A k \in 1..Len(extractedJobs) : \E suffix \in RandomSuffixes :
            LET raw == RawOf(k, suffix)
                job == extractedJobs[k]
                n == Normalized(raw.description)
            IN  /\ Len(job.description) <= 503
                /\ Len(n) >= 501 =>
                      job.description = SubSeq(n, 1, 500) \o <<".",".",".">>
                /\ Len(n) <= 500 => job.description = n
                /\ \A f \in DOMAIN raw \ {"description"} :
                      job[f] = Normalized(raw[f])

\* A description of 501 characters was cut to 500 and the ellipsis.
C9_Witness ==
    /\ Returned
    /\ \E k \in 1..Len(extractedJobs) : \E suffix \in RandomSuffixes :
          /\ Len(Normalized(RawOf(k, suffix).description)) = 501
          /\ Len(extractedJobs[k].description) = 503

\* C10: the clean-up is idempotent: cleaning the cleaned record of a
\* candidate again changes nothing, for the records of the output and for
\* those dropped.
C10_CleanUpIdempotent ==
    Returned =>
        /\ \A k \in 1..Len(extractedJobs) :
              CleanUp(extractedJobs[k]) = extractedJobs[k]
        /\ \A el \in Range(extractCalls) :
              LET cleaned == BuiltJob(el)
              IN  CleanUp(cleaned) = cleaned

\* A description was cut and the 500 characters kept end in a space.
C10_Witness ==
    /\ Returned
    /\ \E k \in 1..Len(extractedJobs) :
          /\ Len(extractedJobs[k].description) = 503
          /\ extractedJobs[k].description[500] = " "

----------------------------------------------------------------------------
(* Properties of the error handling inside the evaluated callback. *)

\* The selectors of a list that querySelector accepts.
ValidOnly(sels) == SelectSeq(sels, LAMBDA s : s \notin InvalidSelectors)

\* The text of the element the first selector of sels finds in a candidate,
\* the empty string when none finds one.
FirstFound(el, sels) ==
    LET hits == {k \in 1..Len(sels) : QuerySelector(doc, el, sels[k]) # 0}
    IN  IF hits = {} THEN <<>>
        ELSE ElementText(doc, QuerySelector(doc, el,
                 sels[CHOOSE k \in hits : \A j \in hits : k <= j]))

\* The keyword filter throws for a job: it meets a keyword that is not a
\* string before a keyword the text of the job includes.
MeetsBadKeyword(job) ==
    \E k \in 1..Len(keywords) :
        /\ keywords[k] = Null
        /\ \A j \in 1..(k - 1) :
              /\ keywords[j] # Null
              /\ ~Includes(ToLowerCase(JoinedBySpaces(job)),
                           ToLowerCase(keywords[j]))

\* The job passes the keyword filter: the text includes a keyword, and the
\* keywords before it are strings.
MeetsGoodKeyword(job) ==
    \E k \in 1..Len(keywords) :
        /\ \A j \in 1..k : keywords[j] # Null
        /\ Includes(ToLowerCase(JoinedBySpaces(job)), ToLowerCase(keywords[k]))

\* C11: a selector that throws is skipped, at discovery (the candidates are
\* those of the cascade without it) and in the extraction of a field (the
\* field is that of the chain without it); an exception while the record of
\* a candidate is built ends in the catch for this candidate alone: the call
\* returns, every candidate within the limit is processed, and those that
\* do not throw and pass the filters are in the output, in order.
C11_FailuresAreSkipped ==
    engine = "website" =>
        /\ pc \in {"start", "loop", "done"}
        /\ Range(caught) \subseteq Range(extractCalls)
        /\ Range(caught) \cap Range(pushedFrom) = {}
        /\ Increasing(pushedFrom)
        /\ Returned =>
              /\ FirstMatchWins(
                     ValidOnly(CascadeWith(selectors.jobContainer)),
                     jobElements)
              /\ \A k \in 1..Len(extractedJobs) : \A f \in TextFields :
                    extractedJobs[k][f] =
                        CleanField(f, FirstFound(pushedFrom[k],
                                                 ValidOnly(FieldSelectors(f))))
              /\ extractCalls =
                    SubSeq(jobElements, 1, Min(Len(jobElements), limit))
              /\ \A el \in Range(extractCalls) :
                    LET job == BuiltJob(el)
                    IN  /\ el \in Range(caught) <=> MeetsBadKeyword(job)
                        /\ Pushed(el) <=>
                              /\ Normalized(job.title) # <<>>
                              /\ keywords = <<>> \/ MeetsGoodKeyword(job)

\* The custom container selector and the custom title selector both throw,
\* the keyword filter threw for one candidate, and a later candidate is in
\* the output with a title.
C11_Witness ==
    /\ Returned
    /\ selectors.jobContainer \in InvalidSelectors
    /\ selectors.title \in InvalidSelectors
    /\ \E a, b \in 1..Len(extractCalls) :
          /\ a < b
          /\ extractCalls[a] \in Range(caught)
          /\ Pushed(extractCalls[b])

----------------------------------------------------------------------------
(* The HTTP handlers POST /scrape and POST /bulk-scrape, and scrapeWebsite
   around the evaluated callback. A handler gives way to the others at each
   await; the steps between two awaits are one action. *)

\* The longest websites array of a /bulk-scrape request.
MaxSites == 2

\* The requests followed; r2 is sent while r1 is served.
Requests == {"r1", "r2"}

\* Nothing yet: no outcome, no response.
None == [none |-> TRUE]

\* The markers of a page that blocks the scraper.
BlockMarkers == {<<"b","l","o","c","k","e","d">>, <<"c","a","p","t","c","h","a">>, <<"a","c","c","e","s","s"," ","d","e","n","i","e","d">>, <<"4","0","3">>, <<"f","o","r","b","i","d","d","e","n">>}

\* The check that compares the title as written.
IsBlockedAsWritten(title) == \E m \in BlockMarkers : Includes(title, m)

\* title.toLowerCase().includes(marker), for any of the markers
IsBlocked(title) == \E m \in BlockMarkers : Includes(ToLowerCase(title), m)

\* The limit /bulk-scrape passes when website.limit is missing or falsy.
DefaultLimit == 20

\* website.limit || 20
BulkLimit(lim) == IF lim = 0 THEN DefaultLimit ELSE lim

\* The callback handed to page.evaluate, from findJobElements to the return
\* of extractedJobs.
PageEvaluate(d, kws, sels, lim, baseUrl, token) ==
    LET elements == findJobElements(d, sels)
        end == LoopEnd(elements, lim)
        jobsUpTo[n \in 0..end] ==
            IF n = 0 THEN <<>>
            ELSE LET job == extractJobData(d, elements[n], baseUrl, sels,
                                           token, Timestamp)
                     throws == Len(kws) > 0 /\ KeywordFilterThrows(job, kws)
                 IN  IF ~throws /\ PassesKeywords(job, kws) /\ HasTitle(job)
                     THEN Append(jobsUpTo[n - 1], job)
                     ELSE jobsUpTo[n - 1]
    IN  jobsUpTo[end]

\* An entry of the websites array (the body of /scrape has the same fields),
\* with the page its url serves: the title and the rendered document.
Website(u, t, d, lim, scroll) ==
    [url |-> u, title |-> t, doc |-> d, keywords |-> <<>>, limit |-> lim,
     scrollPages |-> scroll]

SiteJobs ==
    Website(<<"h","t","t","p","s",":","/","/","e","x","a","m","p","l","e",".","c","o","m","/","s","e","a","r","c","h">>, <<"J","o","b","s"," ","a","t"," ","A","c","m","e">>,
            Assemble(<<CardD, CardB>>), 1, 2)

SiteAllJobs ==
    Website(<<"h","t","t","p","s",":","/","/","e","x","a","m","p","l","e",".","c","o","m","/","a","l","l">>, <<"C","a","r","e","e","r","s">>,
            Assemble(<<CardD, CardB>>), 0, 1)

SiteCaptcha ==
    Website(<<"h","t","t","p","s",":","/","/","c","a","p","t","c","h","a",".","e","x","a","m","p","l","e",".","c","o","m">>, <<"A","T","T","E","N","T","I","O","N",":"," ","C","A","P","T","C","H","A">>,
            Assemble(<<CardA>>), 1, 2)

SiteNoUrl == Website(<<>>, <<>>, <<>>, 1, 1)

\* A null entry of a websites array.
NullEntry == [null |-> TRUE]

\* The entries of a websites array: sites, or null.
SitePool == {SiteJobs, SiteCaptcha, NullEntry}

\* The requests r1 may be.
FirstRequests ==
    {[endpoint |-> "bulk", websites |-> w] : w \in SeqsUpTo(SitePool, MaxSites)}
    \cup {[endpoint |-> "scrape", websites |-> <<w>>] :
              w \in {SiteJobs, SiteAllJobs, SiteCaptcha, SiteNoUrl}}

\* The requests r2 may be; None when it is never sent.
SecondRequests ==
    {None,
     [endpoint |-> "bulk", websites |-> <<SiteAllJobs>>],
     [endpoint |-> "scrape", websites |-> <<SiteJobs>>]}

\* The callback is not followed step by step here.
NoCallback ==
    /\ engine = "none"
    /\ doc = <<>>
    /\ url = <<>>
    /\ keywords = <<>>
    /\ selectors = NoCustom
    /\ limit = 0
    /\ pc = "idle"
    /\ jobElements = <<>>
    /\ i = 0
    /\ extractedJobs = <<>>
    /\ extractCalls = <<>>
    /\ pushedFrom = <<>>
    /\ caught = <<>>

InitServer ==
    /\ NoCallback
    /\ \E a \in FirstRequests, b \in SecondRequests :
          request = [r \in Requests |-> IF r = "r1" THEN a ELSE b]
    /\ rpc = [r \in Requests |-> "sent"]
    /\ site = [r \in Requests |-> 0]
    /\ browser = [r \in Requests |-> FALSE]
    /\ outcome = [r \in Requests |-> None]
    /\ results = [r \in Requests |-> <<>>]
    /\ response = [r \in Requests |-> None]
    /\ trace = [r \in Requests |-> <<>>]

\* The site request r is at.
Current(r) == request[r].websites[site[r]]

\* The step is written to the history of r.
Logged(r, step) ==
    trace' = [trace EXCEPT ![r] = Append(@, <<step, site[r]>>)]

\* The scrolls made so far for the current site of r.
Scrolled(r) ==
    Len(SelectSeq(trace[r], LAMBDA e : e = <<"scroll", site[r]>>))

\* res.status(code).json(body)
Respond(r, code, body) ==
    /\ response' = [response EXCEPT ![r] = [status |-> code, body |-> body]]
    /\ rpc' = [rpc EXCEPT ![r] = "responded"]

\* The head of the for loop of /bulk-scrape with res as the results so far:
\* website k is scraped next; a null entry throws in the try and again in
\* its catch, which leaves the outer catch; after the last one the results
\* are sent.
BulkLoop(r, k, res) ==
    /\ results' = [results EXCEPT ![r] = res]
    /\ IF k > Len(request[r].websites)
       THEN /\ Respond(r, 200,
                   [success |-> TRUE,
                    totalWebsites |-> Len(request[r].websites),
                    successfulScrapes |->
                        Len(SelectSeq(res, LAMBDA e : e.success)),
                    results |-> res])
            /\ UNCHANGED site
       ELSE IF request[r].websites[k] = NullEntry
       THEN /\ Respond(r, 500,
                   [error |-> <<"B","u","l","k"," ","s","c","r","a","p","i","n","g"," ","f","a","i","l","e","d">>,
                    message |-> <<"C","a","n","n","o","t"," ","r","e","a","d"," ","p","r","o","p","e","r","t","i","e","s"," ","o","f"," ","n","u","l","l">>])
            /\ UNCHANGED site
       ELSE /\ site' = [site EXCEPT ![r] = k]
            /\ rpc' = [rpc EXCEPT ![r] = "launch"]
            /\ UNCHANGED response

\* The handler of a request starts: it validates the body and, if there is
\* something to scrape, calls scrapeWebsite, which reaches its first await.
Receive(r) ==
    /\ rpc[r] = "sent" /\ request[r] # None
    /\ IF request[r].endpoint = "scrape"
       THEN /\ IF request[r].websites[1].url = <<>>
               THEN /\ Respond(r, 400, [error |-> <<"U","R","L"," ","i","s"," ","r","e","q","u","i","r","e","d">>])
                    /\ UNCHANGED site
               ELSE /\ site' = [site EXCEPT ![r] = 1]
                    /\ rpc' = [rpc EXCEPT ![r] = "launch"]
                    /\ UNCHANGED response
            /\ UNCHANGED results
       ELSE IF Len(request[r].websites) = 0
       THEN /\ Respond(r, 400, [error |-> <<"W","e","b","s","i","t","e","s"," ","a","r","r","a","y"," ","i","s"," ","r","e","q","u","i","r","e","d">>])
            /\ UNCHANGED <<site, results>>
       ELSE BulkLoop(r, 1, <<>>)
    /\ UNCHANGED <<callbackVars, request, browser, outcome, trace>>

\* scrapeWebsite leaves its try block with an error; the finally comes next.
Throw(r, message) ==
    /\ outcome' = [outcome EXCEPT ![r] = [ok |-> FALSE, message |-> message]]
    /\ rpc' = [rpc EXCEPT ![r] = "finally"]

\* browser = await puppeteer.launch(...): a browser, or an error.
Launch(r) ==
    /\ rpc[r] = "launch"
    /\ \/ /\ browser' = [browser EXCEPT ![r] = TRUE]
          /\ rpc' = [rpc EXCEPT ![r] = "goto"]
          /\ Logged(r, "launch")
          /\ UNCHANGED outcome
       \/ /\ Throw(r, <<"F","a","i","l","e","d"," ","t","o"," ","l","a","u","n","c","h"," ","t","h","e"," ","b","r","o","w","s","e","r"," ","p","r","o","c","e","s","s">>)
          /\ UNCHANGED <<browser, trace>>
    /\ UNCHANGED <<callbackVars, request, site, results, response>>

\* await page.goto(url, ...): the page is loaded, or the navigation fails (it
\* does for a missing url).
Goto(r) ==
    /\ rpc[r] = "goto"
    /\ \/ /\ Current(r).url # <<>>
          /\ rpc' = [rpc EXCEPT ![r] = "check"]
          /\ Logged(r, "goto")
          /\ UNCHANGED outcome
       \/ /\ Throw(r, <<"N","a","v","i","g","a","t","i","o","n"," ","f","a","i","l","e","d">>)
          /\ UNCHANGED trace
    /\ UNCHANGED <<callbackVars, request, site, browser, results, response>>

\* After the wait, the title is read and compared with the markers.
CheckBlocked(r) ==
    /\ rpc[r] = "check"
    /\ Logged(r, "check")
    /\ IF IsBlocked(Current(r).title)
       THEN Throw(r, <<"B","l","o","c","k","e","d"," ","b","y"," ","w","e","b","s","i","t","e"," ","-"," ","P","a","g","e"," ","t","i","t","l","e",":"," ">> \o Current(r).title)
       ELSE /\ rpc' = [rpc EXCEPT ![r] =
                         IF 1 < Current(r).scrollPages THEN "scroll"
                         ELSE "evaluate"]
            /\ UNCHANGED outcome
    /\ UNCHANGED <<callbackVars, request, site, browser, results, response>>

\* One scroll to the bottom of the page and its delay (i > 0 in the loop).
Scroll(r) ==
    /\ rpc[r] = "scroll"
    /\ Logged(r, "scroll")
    /\ rpc' = [rpc EXCEPT ![r] =
                 IF Scrolled(r) + 2 < Current(r).scrollPages THEN "scroll"
                 ELSE "evaluate"]
    /\ UNCHANGED <<callbackVars, request, site, browser, outcome, results,
                   response>>

\* const jobs = await page.evaluate(...)
Evaluate(r) ==
    /\ rpc[r] = "evaluate"
    /\ Logged(r, "evaluate")
    /\ \E suffix \in RandomSuffixes :
          outcome' = [outcome EXCEPT ![r] =
              [ok |-> TRUE,
               jobs |-> PageEvaluate(Current(r).doc, Current(r).keywords,
                            NoCustom,
                            IF request[r].endpoint = "bulk"
                            THEN BulkLimit(Current(r).limit)
                            ELSE Current(r).limit,
                            Current(r).url, <<"j","o","b","_">> \o suffix)]]
    /\ rpc' = [rpc EXCEPT ![r] = "finally"]
    /\ UNCHANGED <<callbackVars, request, site, browser, results, response>>

\* finally { if (browser) await browser.close() }
Finally(r) ==
    /\ rpc[r] = "finally"
    /\ IF browser[r]
       THEN /\ browser' = [browser EXCEPT ![r] = FALSE]
            /\ Logged(r, "close")
       ELSE UNCHANGED <<browser, trace>>
    /\ rpc' = [rpc EXCEPT ![r] = "settled"]
    /\ UNCHANGED <<callbackVars, request, site, outcome, results, response>>

\* scrapeWebsite has returned or thrown: /scrape answers; /bulk-scrape pushes
\* an entry and, after a success, waits, after a failure, goes on at once.
Settle(r) ==
    /\ rpc[r] = "settled"
    /\ IF request[r].endpoint = "scrape"
       THEN /\ IF outcome[r].ok
               THEN Respond(r, 200,
                        [success |-> TRUE,
                         url |-> Current(r).url,
                         keywords |-> Current(r).keywords,
                         totalJobs |-> Len(outcome[r].jobs),
                         scrapedAt |-> Timestamp,
                         jobs |-> outcome[r].jobs])
               ELSE Respond(r, 500,
                        [error |-> <<"S","c","r","a","p","i","n","g"," ","f","a","i","l","e","d">>,
                         message |-> outcome[r].message,
                         url |-> Current(r).url])
            /\ UNCHANGED <<site, results>>
       ELSE IF outcome[r].ok
       THEN /\ results' = [results EXCEPT ![r] = Append(@,
                   [success |-> TRUE,
                    url |-> Current(r).url,
                    keywords |-> Current(r).keywords,
                    totalJobs |-> Len(outcome[r].jobs),
                    jobs |-> outcome[r].jobs,
                    scrapedAt |-> Timestamp])]
            /\ rpc' = [rpc EXCEPT ![r] = "delay"]
            /\ UNCHANGED <<site, response>>
       ELSE BulkLoop(r, site[r] + 1, Append(results[r],
                [success |-> FALSE,
                 url |-> Current(r).url,
                 error |-> outcome[r].message,
                 scrapedAt |-> Timestamp]))
    /\ UNCHANGED <<callbackVars, request, browser, outcome, trace>>

\* await randomDelay(2000, 5000), then the next website.
Delay(r) ==
    /\ rpc[r] = "delay"
    /\ Logged(r, "delay")
    /\ BulkLoop(r, site[r] + 1, results[r])
    /\ UNCHANGED <<callbackVars, request, browser, outcome>>

NextServer ==
    \E r \in Requests :
        \/ Receive(r)
        \/ Launch(r)
        \/ Goto(r)
        \/ CheckBlocked(r)
        \/ Scroll(r)
        \/ Evaluate(r)
        \/ Finally(r)
        \/ Settle(r)
        \/ Delay(r)

SpecServer == InitServer /\ [][NextServer]_vars

----------------------------------------------------------------------------
(* Properties of the HTTP handlers. *)

\* The callback followed step by step returns what PageEvaluate gives for
\* its arguments (the random tokens of the job ids apart).
PageEvaluateAgrees ==
    Returned =>
        LET jobs == PageEvaluate(doc, keywords, selectors, limit, url, <<"j","o","b","_">>)
        IN  /\ Len(jobs) = Len(extractedJobs)
            /\ \A k \in 1..Len(jobs) :
                  \A f \in DOMAIN jobs[k] \ {"jobId"} :
                      jobs[k][f] = extractedJobs[k][f]

\* The requests that are sent.
Sent == {r \in Requests : request[r] # None}

\* The steps request r took for its website k, in order.
StepsOf(r, k) ==
    LET steps == SelectSeq(trace[r], LAMBDA e : e[2] = k)
    IN  [j \in 1..Len(steps) |-> steps[j][1]]

\* The title holds one of the markers, in any case of letters.
TitleHasMarker(title) ==
    \E m \in {<<"b","l","o","c","k","e","d">>, <<"c","a","p","t","c","h","a">>, <<"a","c","c","e","s","s"," ","d","e","n","i","e","d">>, <<"4","0","3">>, <<"f","o","r","b","i","d","d","e","n">>} :
        Includes(ToLowerCase(title), m)

\* The message of the error thrown for a blocked page.
BlockedMessage(title) == <<"B","l","o","c","k","e","d"," ","b","y"," ","w","e","b","s","i","t","e"," ","-"," ","P","a","g","e"," ","t","i","t","l","e",":"," ">> \o title

\* C12: in scrapeWebsite the title is checked right after the navigation and
\* before any scroll and before the evaluation; when it holds a marker, in
\* any case of letters, there is no scroll and no evaluation for that site,
\* scrapeWebsite throws the blocked error, /scrape answers 500 without jobs
\* and /bulk-scrape records a success: false entry without jobs.
C12_BlockedTitleStopsTheCall ==
    \A r \in Sent : \A k \in 1..site[r] :
        LET steps == StepsOf(r, k)
            website == request[r].websites[k]
            checked == \E j \in 1..Len(steps) : steps[j] = "check"
        IN  /\ \A j \in 1..Len(steps) :
                  /\ steps[j] = "check" =>
                        /\ j > 1 /\ steps[j - 1] = "goto"
                        /\ \A h \in 1..(j - 1) :
                              steps[h] \notin {"scroll", "evaluate"}
                  /\ steps[j] \in {"scroll", "evaluate"} =>
                        \E h \in 1..(j - 1) : steps[h] = "check"
            /\ TitleHasMarker(website.title) =>
                  /\ \A j \in 1..Len(steps) :
                        steps[j] \notin {"scroll", "evaluate"}
                  /\ k = site[r] /\ rpc[r] \in {"finally", "settled"} =>
                        /\ ~outcome[r].ok
                        /\ checked =>
                              outcome[r].message = BlockedMessage(website.title)
                  /\ request[r].endpoint = "scrape" /\ rpc[r] = "responded" =>
                        /\ response[r].status = 500
                        /\ "jobs" \notin DOMAIN response[r].body
                        /\ checked =>
                              response[r].body.message
                                  = BlockedMessage(website.title)
                  /\ request[r].endpoint = "bulk" /\ k <= Len(results[r]) =>
                        /\ ~results[r][k].success
                        /\ "jobs" \notin DOMAIN results[r][k]
                        /\ results[r][k].url = website.url
                        /\ checked =>
                              results[r][k].error
                                  = BlockedMessage(website.title)
            /\ request[r].endpoint = "bulk" /\ rpc[r] = "responded"
                  /\ response[r].status = 200 =>
                        response[r].body.results = results[r]

\* /bulk-scrape answered for two sites: the first, whose title holds CAPTCHA
\* in upper case and whose page has a job card, got a success: false entry
\* with the blocked error; the second was evaluated and has jobs.
C12_Witness ==
    \E r \in Sent :
        /\ request[r].endpoint = "bulk"
        /\ rpc[r] = "responded"
        /\ response[r].status = 200
        /\ Len(response[r].body.results) = 2
        /\ ~response[r].body.results[1].success
        /\ response[r].body.results[1].error
              = BlockedMessage(<<"A","T","T","E","N","T","I","O","N",":"," ","C","A","P","T","C","H","A">>)
        /\ Len(findJobElements(request[r].websites[1].doc, NoCustom)) > 0
        /\ response[r].body.results[2].success
        /\ response[r].body.results[2].totalJobs > 0
        /\ StepsOf(r, 2) =
              <<"launch", "goto", "check", "scroll", "evaluate", "close",
                "delay">>

\* The launches of request r, in order: the indices of the websites.
Launches(r) ==
    LET steps == SelectSeq(trace[r], LAMBDA e : e[1] = "launch")
    IN  [j \in 1..Len(steps) |-> steps[j][2]]

\* In the history of r, a step of the given kind lies between the launch for
\* website a and the launch for website b.
Between(r, kind, a, b) ==
    \E h, j, l \in 1..Len(trace[r]) :
        /\ h < j /\ j < l
        /\ trace[r][h] = <<"launch", a>>
        /\ trace[r][j][1] = kind
        /\ trace[r][l] = <<"launch", b>>

\* C13: at every moment at most one browser of a /bulk-scrape request is
\* open; within a request the browser of a site is closed before the next
\* one is launched and a delay lies between two consecutive sessions; the
\* request is answered with one entry of results for each website (none of
\* them null), in the order of the input, whatever failed.
C13_OneSessionAtATime ==
    /\ Cardinality({r \in Sent :
                        request[r].endpoint = "bulk" /\ browser[r]}) <= 1
    /\ \A r \in Sent :
          request[r].endpoint = "bulk" =>
              /\ rpc[r] = "launch" => ~browser[r]
              /\ \A j \in 2..Len(Launches(r)) :
                    /\ Between(r, "close", Launches(r)[j - 1], Launches(r)[j])
                    /\ Between(r, "delay", Launches(r)[j - 1], Launches(r)[j])
              /\ rpc[r] = "responded" /\ Len(request[r].websites) > 0
                    /\ (\A k \in 1..Len(request[r].websites) :
                           request[r].websites[k] # NullEntry) =>
                    /\ response[r].status = 200
                    /\ Len(response[r].body.results)
                          = Len(request[r].websites)
                    /\ \A k \in 1..Len(request[r].websites) :
                          response[r].body.results[k].url
                              = request[r].websites[k].url

\* What holds of one /bulk-scrape request: its browser is open only inside
\* scrapeWebsite and is closed before the next launch; a delay follows every
\* site that succeeded, and none a site that failed; with no null entry in
\* a non-empty websites array, the answer holds one entry for each website,
\* in the order of the input.
OneSessionAtATimePerRequest ==
    \A r \in Sent :
        request[r].endpoint = "bulk" =>
            /\ browser[r] =>
                  rpc[r] \in {"goto", "check", "scroll", "evaluate", "finally"}
            /\ \A j \in 2..Len(Launches(r)) :
                  Between(r, "close", Launches(r)[j - 1], Launches(r)[j])
            /\ \A k \in 1..Len(results[r]) :
                  results[r][k].success <=>
                      \/ \E j \in 1..Len(trace[r]) : trace[r][j] = <<"delay", k>>
                      \/ rpc[r] = "delay" /\ site[r] = k
            /\ rpc[r] = "responded" /\ Len(request[r].websites) > 0
                  /\ (\A k \in 1..Len(request[r].websites) :
                         request[r].websites[k] # NullEntry) =>
                  /\ response[r].status = 200
                  /\ Len(response[r].body.results) = Len(request[r].websites)
                  /\ \A k \in 1..Len(request[r].websites) :
                        response[r].body.results[k].url
                            = request[r].websites[k].url

\* A /bulk-scrape request launched the browser for its second website right
\* after the first one failed, with no delay in between.
C13_Witness ==
    \E r \in Sent :
        /\ request[r].endpoint = "bulk"
        /\ Len(Launches(r)) = 2
        /\ Between(r, "close", 1, 2)
        /\ ~Between(r, "delay", 1, 2)
        /\ ~results[r][1].success

============================================================================
